---------------------------- MODULE Spec2Model ----------------------------
(***************************************************************************)
(* Model of resume-intelligence: the Roe AI client (roe_ai.py) and the     *)
(* Streamlit orchestration of the three stages (app.py).                   *)
(*                                                                         *)
(* One step of the model is one whole script run of the Streamlit app      *)
(* (ResumeIntelligenceApp.run, triggered by one user interaction), or one  *)
(* direct call of a public function of roe_ai.py.                          *)
(***************************************************************************)
EXTENDS Integers, Sequences, FiniteSets, TLC

(***************************************************************************)
(* Bounds of the model.                                                    *)
(***************************************************************************)
\* temporary files one behaviour may create (tempfile.NamedTemporaryFile)
MaxTmp == 2
\* proficiency levels run over -MaxProficiency..MaxProficiency
MaxProficiency == 6
\* longest skills list handed to the renderers
MaxSkills == 2

(***************************************************************************)
(* Python values.  Every value is a record tagged by k.                    *)
(*   None                 [k |-> "None"]                                   *)
(*   dict                 [k |-> "dict", d |-> record of the items]        *)
(*   list                 [k |-> "list", l |-> sequence of values]         *)
(*   str                  [k |-> "str",  s |-> sequence of text segments]  *)
(* A text segment is literal text [lit |-> "..."] or the JSON              *)
(* serialisation of a value [json |-> v].                                  *)
(***************************************************************************)
PyNone == [k |-> "None"]
PyDict(d) == [k |-> "dict", d |-> d]
PyList(l) == [k |-> "list", l |-> l]
PyStr(s) == [k |-> "str", s |-> s]
Lit(t) == [lit |-> t]

\* results of a Python call: a returned value or a raised exception
Ok(v) == [exc |-> "none", val |-> v]
Raise(e) == [exc |-> e, val |-> PyNone]

\* json.dumps(v): the str holding the JSON serialisation of v
JsonDumps(v) == PyStr(<<[json |-> v]>>)

\* json.loads(x): the value a JSON text serialises; TypeError for a
\* non-str, JSONDecodeError (a ValueError) for text that is not JSON
JsonLoads(x) ==
  IF x.k # "str" THEN Raise("TypeError")
  ELSE IF Len(x.s) = 1 /\ DOMAIN x.s[1] = {"json"} THEN Ok(x.s[1].json)
  ELSE Raise("JSONDecodeError")

\* Python truthiness of a value (None, empty dict/list/str are falsy)
Truthy(v) ==
  CASE v.k = "None" -> FALSE
    [] v.k = "dict" -> DOMAIN v.d # {}
    [] v.k = "list" -> Len(v.l) > 0
    [] v.k = "str" -> Len(v.s) > 0


(***************************************************************************)
(* Process environment and fixed texts.                                    *)
(***************************************************************************)
EmptyStr == PyStr(<<>>)
Text(t) == PyStr(<<Lit(t)>>)


\* sidebar widgets: disabled inputs, always their default value
insights_prompt == Text("Please extract actionable insights from the candidates resume")
page_filter == Text("@PAGERANGE(1-3)")

JobInstruction == Text("Extract key responsibilities and requirements from this job description")
DefaultFormSelector == Text("#job-description-form")
RubricPrompt == Text("Perform a comprehensive assessment of how well the candidate matches the job requirements. ...")

(***************************************************************************)
(* The external service.  One requests.post has one of these outcomes: a   *)
(* network-level fault, or a response with a status and a body text.       *)
(***************************************************************************)
NetworkFault == [fault |-> TRUE, status |-> 0, body |-> EmptyStr]
Http500 == [fault |-> FALSE, status |-> 500, body |-> Text("Internal Server Error")]
NotJson == [fault |-> FALSE, status |-> 200, body |-> Text("<html>")]
Http200(v) == [fault |-> FALSE, status |-> 200, body |-> JsonDumps(v)]

\* candidate profiles and other objects the insight agent may put in value
ProfA ==
  PyDict([name |-> Text("John Doe"), email |-> Text("john@x.com"),
          skills |-> PyList(<<PyDict([name |-> Text("Python"), proficiency |-> 4])>>)])
ProfEmptySkills ==
  PyDict([name |-> Text("Jane Roe"), email |-> Text("jane@x.com"),
          skills |-> PyList(<<>>)])
ProfNoEmail ==
  PyDict([name |-> Text("John Doe"),
          skills |-> PyList(<<PyDict([name |-> Text("Python"), proficiency |-> 4])>>)])
JobA == PyDict([result |-> Text("Founding Engineer")])
JobB == PyDict([result |-> Text("Data Scientist")])
FitStrong ==
  PyDict([percentage_match |-> 75, overall_recommendation |-> Text("Strong Fit"),
          strengths |-> PyList(<<Text("Strong Python skills")>>),
          potential_skill_gaps |-> PyList(<<Text("Advanced cloud computing")>>)])

\* response bodies: a list whose first element carries the nested JSON text
\* in "value" (the shape result[0]["value"] reads), or an object with a
\* "result" list
ListBody(value) == PyList(<<PyDict([value |-> value])>>)
ObjectBody(value) == PyDict([result |-> PyList(<<PyDict([value |-> value])>>)])
Garbage == Text("not json")

Bodies(kind) ==
  CASE kind = "doc" ->
         {ListBody(JsonDumps(v)) : v \in {ProfA, ProfEmptySkills, ProfNoEmail}}
           \cup {ListBody(Garbage), ObjectBody(JsonDumps(ProfA))}
    [] kind = "url" ->
         {ListBody(JsonDumps(v)) : v \in {JobA, JobB}} \cup {ListBody(Garbage)}
    [] kind = "text" ->
         {ListBody(JsonDumps(FitStrong)), ListBody(Garbage)}

Outcomes(kind) ==
  {NetworkFault, Http500, NotJson} \cup {Http200(b) : b \in Bodies(kind)}

(***************************************************************************)
(* roe_ai.py: the Agent Client.                                            *)
(***************************************************************************)
\* response.raise_for_status(): HTTPError for a 4xx or 5xx status
RaisesForStatus(status) == status >= 400 /\ status < 600

\* faulty variant: no "except ValueError", so a body that is not JSON raises
PostAndParseNoExceptValueError(req, out) ==
  IF out.fault THEN [ret |-> Ok(PyNone), posts |-> <<req>>]
  ELSE IF RaisesForStatus(out.status) THEN [ret |-> Ok(PyNone), posts |-> <<req>>]
  ELSE [ret |-> JsonLoads(out.body), posts |-> <<req>>]

\* faulty variant: a request that failed at the network level is sent again
PostAndParseRetry(req, out) ==
  IF out.fault THEN [ret |-> Ok(PyNone), posts |-> <<req, req>>]
  ELSE IF RaisesForStatus(out.status) THEN [ret |-> Ok(PyNone), posts |-> <<req>>]
  ELSE IF JsonLoads(out.body).exc # "none" THEN [ret |-> Ok(PyNone), posts |-> <<req>>]
  ELSE [ret |-> Ok(JsonLoads(out.body).val), posts |-> <<req>>]

\* requests.post(...), raise_for_status(), response.json() and the except
\* clauses around them: the parsed body, or None on any request failure
PostAndParse(req, out) ==
  IF out.fault THEN [ret |-> Ok(PyNone), posts |-> <<req>>]
  ELSE IF RaisesForStatus(out.status) THEN [ret |-> Ok(PyNone), posts |-> <<req>>]
  ELSE IF JsonLoads(out.body).exc # "none" THEN [ret |-> Ok(PyNone), posts |-> <<req>>]
  ELSE [ret |-> Ok(JsonLoads(out.body).val), posts |-> <<req>>]

\* faulty variant: no decorator, the body runs on every call
CacheDataUndecorated(cache, key, raw) ==
  [ret |-> raw.ret, cache |-> cache, posts |-> raw.posts, hit |-> FALSE]

\* @st.cache_data: the call is served from the function's cache when the
\* argument tuple is in it; otherwise the body runs and its return value
\* (None included) is stored; a raised exception is not stored
CacheData(cache, key, raw) ==
  IF key \in DOMAIN cache
    THEN [ret |-> Ok(cache[key]), cache |-> cache, posts |-> <<>>, hit |-> TRUE]
    ELSE [ret |-> raw.ret,
          cache |-> IF raw.ret.exc = "none" THEN cache @@ (key :> raw.ret.val) ELSE cache,
          posts |-> raw.posts, hit |-> FALSE]

\* the value of an expression, computed once
One(S) == CHOOSE x \in S : TRUE

\* a decorated function's result: the cache's answer with the function's
\* cache replaced in the memo
Memoized(fn, memo, c) ==
  [ret |-> c.ret, memo |-> [memo EXCEPT ![fn] = c.cache], posts |-> c.posts,
   hit |-> c.hit]

\* faulty variant: the request is sent without opening the file first
DocumentBodyNoOpen(agent_id, bearer_token, pdf_path, instruction, page_range, fs, out) ==
  PostAndParse([url |-> agent_id, auth |-> bearer_token,
                data |-> [instruction |-> instruction, page_filter |-> page_range],
                files |-> <<pdf_path>>], out)

\* open(pdf_path, "rb") and the request under it
DocumentBody(agent_id, bearer_token, pdf_path, instruction, page_range, fs, out) ==
  IF pdf_path \notin fs
    THEN [ret |-> Ok(PyNone), posts |-> <<>>]     \* FileNotFoundError from open()
    ELSE PostAndParse([url |-> agent_id, auth |-> bearer_token,
                       data |-> [instruction |-> instruction, page_filter |-> page_range],
                       files |-> <<pdf_path>>], out)

process_document_with_ai_agent(agent_id, bearer_token, pdf_path, instruction, page_range, memo, fs, out) ==
  One({Memoized("doc", memo,
                CacheData(memo.doc,
                          <<agent_id, bearer_token, pdf_path, instruction, page_range>>,
                          raw))
        : raw \in {DocumentBody(agent_id, bearer_token, pdf_path, instruction,
                                page_range, fs, out)}})

process_url_with_ai_agent(agent_id, bearer_token, data, memo, out) ==
  One({Memoized("url", memo, CacheData(memo.url, <<agent_id, bearer_token, data>>, raw))
        : raw \in {PostAndParse([url |-> agent_id, auth |-> bearer_token,
                                 data |-> data, files |-> <<>>], out)}})

process_text_with_ai_agent(agent_id, bearer_token, data, memo, out) ==
  One({Memoized("text", memo, CacheData(memo.text, <<agent_id, bearer_token, data>>, raw))
        : raw \in {PostAndParse([url |-> agent_id, auth |-> bearer_token,
                                 data |-> data, files |-> <<>>], out)}})

(***************************************************************************)
(* roe_ai.py: the three extractors.                                        *)
(***************************************************************************)
\* the early return of an extractor whose credentials are not set
NoCall(memo) == [ret |-> Ok(PyNone), memo |-> memo, posts |-> <<>>, hit |-> FALSE]

\* "if result is None: raise ValueError" under "except Exception: return
\* None": a None result, or any exception, comes out as None
NoneOnFailure(r) ==
  IF r.ret.exc # "none" \/ r.ret.val = PyNone THEN [r EXCEPT !.ret = Ok(PyNone)] ELSE r

\* faulty variant: only the agent id is validated
generate_insights_agent_only(pdf_path, instruction, page_range, env, memo, fs, out) ==
  IF ~Truthy(env.ROE_AI_AGENT_ID)
    THEN NoCall(memo)
    ELSE process_document_with_ai_agent(env.ROE_AI_AGENT_ID, env.ROE_AI_BEARER_TOKEN,
                                        pdf_path, instruction, page_range, memo, fs, out)

generate_insights(pdf_path, instruction, page_range, env, memo, fs, out) ==
  IF ~Truthy(env.ROE_AI_AGENT_ID) \/ ~Truthy(env.ROE_AI_BEARER_TOKEN)
    THEN NoCall(memo)
    ELSE process_document_with_ai_agent(env.ROE_AI_AGENT_ID, env.ROE_AI_BEARER_TOKEN,
                                        pdf_path, instruction, page_range, memo, fs, out)

JobData(url) ==
  [url |-> url, instruction |-> JobInstruction,
   form_selector |-> DefaultFormSelector, form_fields |-> EmptyStr]

extract_job_details(url, env, memo, out) ==
  IF ~Truthy(env.ROE_AI_JOB_AGENT) \/ ~Truthy(env.ROE_AI_BEARER_TOKEN)
    THEN NoCall(memo)
    ELSE One({NoneOnFailure(r)
               : r \in {process_url_with_ai_agent(env.ROE_AI_JOB_AGENT,
                                                  env.ROE_AI_BEARER_TOKEN,
                                                  JobData(url), memo, out)}})

\* faulty variant: the job details come first
FitTargetJobFirst(candidate_insights, job_details) ==
  PyStr(<<Lit("Job Details:\n")>> \o JsonDumps(job_details).s
        \o <<Lit("\n\nCandidate Insights:\n")>> \o JsonDumps(candidate_insights).s)

\* the target text: both arguments serialised with json.dumps under headers
FitTarget(candidate_insights, job_details) ==
  PyStr(<<Lit("Candidate Insights:\n")>> \o JsonDumps(candidate_insights).s
        \o <<Lit("\n\nJob Details:\n")>> \o JsonDumps(job_details).s)

FitData(candidate_insights, job_details) ==
  [prompt |-> RubricPrompt, target |-> FitTarget(candidate_insights, job_details)]

evaluate_candidate_job_fit(candidate_insights, job_details, env, memo, out) ==
  IF ~Truthy(env.ROE_AI_EVALUATE_AGENT) \/ ~Truthy(env.ROE_AI_BEARER_TOKEN)
    THEN NoCall(memo)
    ELSE One({NoneOnFailure(r)
               : r \in {process_text_with_ai_agent(
                          env.ROE_AI_EVALUATE_AGENT, env.ROE_AI_BEARER_TOKEN,
                          FitData(candidate_insights, job_details), memo, out)}})

(***************************************************************************)
(* app.py: the stages of one script run.  A stage returns what it did to   *)
(* the session (st.session_state), the memo caches and the page.           *)
(***************************************************************************)
\* a slot of st.session_state: hasattr(...) false, or the attribute's value
Absent == [has |-> FALSE]
Has(v) == [has |-> TRUE, v |-> v]

\* the path of the i-th temporary file (NamedTemporaryFile(delete=False))
TmpPath(i) == PyStr(<<Lit("/tmp/tmp"), [n |-> i], Lit(".pdf")>>)

\* the files on disk: the ones there from the start and the temporary files
\* created so far (none is ever deleted)
ResumePdf == Text("./resume.pdf")
MissingPdf == Text("non_existent.pdf")
Files(n) == {ResumePdf} \cup {TmpPath(i) : i \in 1..n}

\* faulty variant: result["result"][0]["value"]
FirstValueUnderResult(result) ==
  CASE result.k = "None" -> Raise("TypeError")
    [] result.k = "str" -> Raise("TypeError")
    [] result.k = "list" -> Raise("TypeError")
    [] result.k = "dict" ->
         IF "result" \notin DOMAIN result.d THEN Raise("KeyError")
         ELSE IF result.d.result.k # "list" THEN Raise("TypeError")
         ELSE IF Len(result.d.result.l) = 0 THEN Raise("IndexError")
         ELSE Ok(result.d.result.l[1].d.value)

\* result[0]["value"]
FirstValue(result) ==
  CASE result.k = "None" -> Raise("TypeError")
    [] result.k = "str" -> Raise("TypeError")
    [] result.k = "dict" -> Raise("KeyError")
    [] result.k = "list" ->
         IF Len(result.l) = 0 THEN Raise("IndexError")
         ELSE IF result.l[1].k # "dict" THEN Raise("TypeError")
         ELSE IF "value" \notin DOMAIN result.l[1].d THEN Raise("KeyError")
         ELSE Ok(result.l[1].d.value)

\* json.loads(result[0]["value"]) on what a call returned; an exception of
\* the call itself propagates
DecodeResult(ret) ==
  IF ret.exc # "none" THEN ret
  ELSE IF FirstValue(ret.val).exc # "none" THEN FirstValue(ret.val)
  ELSE JsonLoads(FirstValue(ret.val).val)

required_fields == {"name", "email", "skills"}

\* all(field in insights for field in required_fields)
SchemaCheck(insights) ==
  CASE insights.k = "dict" -> Ok(required_fields \subseteq DOMAIN insights.d)
    [] insights.k = "list" -> Ok(FALSE)
    [] insights.k = "None" -> Raise("TypeError")
    [] insights.k = "str" -> Ok(FALSE)

\* the schema check of _extract_resume_insights on the decoded value dec:
\* the insights on success, None with a warning otherwise; an exception
\* raised so far propagates (nothing here catches it)
ValidateInsights(dec) ==
  IF dec.exc # "none" THEN [ret |-> dec, msgs |-> {}]
  ELSE IF SchemaCheck(dec.val).exc # "none"
    THEN [ret |-> Raise(SchemaCheck(dec.val).exc), msgs |-> {}]
  ELSE IF SchemaCheck(dec.val).val THEN [ret |-> Ok(dec.val), msgs |-> {"success"}]
  ELSE [ret |-> Ok(PyNone), msgs |-> {"warning"}]

\* _extract_resume_insights after generate_insights returned: the nested
\* value is decoded and checked
InsightsOf(call) ==
  One({[ret |-> v.ret, msgs |-> v.msgs, call |-> call]
        : v \in {ValidateInsights(DecodeResult(call.ret))}})

\* _extract_resume_insights: the uploaded bytes go to a new temporary file
\* and generate_insights is called on it
ExtractResumeInsights(env, memo, tmp, out) ==
  One({InsightsOf(call)
        : call \in {generate_insights(TmpPath(tmp + 1), insights_prompt, page_filter,
                                      env, memo, Files(tmp + 1), out)}})

\* _display_candidate_profile with _render_skills and _create_skills_chart:
\* .get on the profile, and the chart's tabs, bound only for non-empty skills
DisplayCandidateProfile(candidate_data) ==
  IF candidate_data.k # "dict" THEN Raise("AttributeError")
  ELSE IF "skills" \notin DOMAIN candidate_data.d THEN Raise("UnboundLocalError")
  ELSE IF ~Truthy(candidate_data.d.skills) THEN Raise("UnboundLocalError")
  ELSE Ok(PyNone)

\* the try block of _extract_job_details after extract_job_details
\* returned: the decoded value is stored on success, st.error otherwise
JobDetailsOf(call) ==
  One({IF dec.exc # "none"
         THEN [stored |-> FALSE, val |-> PyNone, msgs |-> {"error"}, call |-> call]
         ELSE [stored |-> TRUE, val |-> dec.val, msgs |-> {"success"}, call |-> call]
        : dec \in {DecodeResult(call.ret)}})

JobDetailsPressed(job_url, env, memo, out) ==
  One({JobDetailsOf(call) : call \in {extract_job_details(job_url, env, memo, out)}})

\* faulty variant: the boundaries 2 and 4 fall into the upper class
get_proficiency_label_strict(proficiency) ==
  IF proficiency < 2 THEN "Beginner"
  ELSE IF proficiency < 4 THEN "Intermediate"
  ELSE "Advanced"

\* _get_proficiency_label(proficiency)
get_proficiency_label(proficiency) ==
  IF proficiency <= 2 THEN "Beginner"
  ELSE IF proficiency <= 4 THEN "Intermediate"
  ELSE "Advanced"

\* the badge of one skill in _render_skills: the name and, for a skill with
\* a proficiency, its label
SkillBadge(skill) ==
  IF "proficiency" \in DOMAIN skill.d
    THEN [name |-> skill.d.name, label |-> get_proficiency_label(skill.d.proficiency)]
    ELSE [name |-> skill.d.name, label |-> "-"]

\* _render_skills(skills): the badges, in order; none for an empty list
render_skills(skills) == [i \in 1..Len(skills.l) |-> SkillBadge(skills.l[i])]

\* hash(v): dict keys and .get arguments must be hashable
Hashable(v) == v.k \in {"None", "str"}

\* match_assessment.get("overall_recommendation", "Unknown")
RecommendationOf(match_assessment) ==
  IF "overall_recommendation" \in DOMAIN match_assessment.d
    THEN match_assessment.d.overall_recommendation
    ELSE Text("Unknown")

\* faulty variant: an entry of color_map for "Weak Fit" with the neutral
\* colour
ColorOfWeakOrange(recommendation) ==
  IF recommendation = Text("Strong Fit") THEN <<"green", "check">>
  ELSE IF recommendation \in {Text("Moderate Fit"), Text("Weak Fit")}
    THEN <<"orange", "warning">>
  ELSE <<"red", "cross">>

\* color_map.get(recommendation, ("red", "cross"))
ColorOf(recommendation) ==
  IF recommendation = Text("Strong Fit") THEN <<"green", "check">>
  ELSE IF recommendation = Text("Moderate Fit") THEN <<"orange", "warning">>
  ELSE <<"red", "cross">>

\* _render_recommendation(match_assessment): what goes into the markdown, as
\* <<colour, emoji, recommendation>>; TypeError from color_map.get for an
\* unhashable recommendation
render_recommendation(match_assessment) ==
  IF match_assessment.k # "dict" THEN Raise("AttributeError")
  ELSE IF ~Hashable(RecommendationOf(match_assessment)) THEN Raise("TypeError")
  ELSE Ok(ColorOf(RecommendationOf(match_assessment))
            \o <<RecommendationOf(match_assessment)>>)

\* _render_job_match_assessment: .get on the assessment, the recommendation
\* and the lists
RenderJobMatchAssessment(match_assessment) ==
  IF match_assessment.k # "dict" THEN Raise("AttributeError")
  ELSE IF render_recommendation(match_assessment).exc # "none"
    THEN Raise(render_recommendation(match_assessment).exc)
  ELSE Ok(PyNone)

\* the try block of _assess_job_match after evaluate_candidate_job_fit
\* returned: a truthy result is decoded and rendered, never stored
AssessOf(call) ==
  IF call.ret.exc = "none" /\ ~Truthy(call.ret.val)
    THEN [fit |-> Absent, msgs |-> {"error"}, call |-> call]
    ELSE One({IF dec.exc # "none" \/ RenderJobMatchAssessment(dec.val).exc # "none"
                THEN [fit |-> Absent, msgs |-> {"error"}, call |-> call]
                ELSE [fit |-> Has(dec.val), msgs |-> {}, call |-> call]
               : dec \in {DecodeResult(call.ret)}})

\* both cached objects are serialised and handed to evaluate_candidate_job_fit
AssessPressed(job_details, candidate_insights, env, memo, out) ==
  One({AssessOf(call)
        : call \in {evaluate_candidate_job_fit(JsonDumps(candidate_insights),
                                               JsonDumps(job_details), env, memo,
                                               out)}})

(***************************************************************************)
(* app.py: one script run (ResumeIntelligenceApp.run).                     *)
(*                                                                         *)
(* sess is the session: the widget values (file, job_url) and the          *)
(* attributes of st.session_state (insights, job_details).  page is what   *)
(* the run puts on screen, call what it called.  press is the button whose *)
(* st.button(...) returns True in this run ("none" when the run was caused *)
(* by another widget).  A run that raises stops where it raised.           *)
(***************************************************************************)
BlankPage ==
  [widgets |-> {}, profile |-> Absent, job |-> Absent, fit |-> Absent,
   msgs |-> {}, exc |-> "none"]

\* what a run records about the extractor call it made, if any
Quiet(memo) == [called |-> FALSE, ret |-> Ok(PyNone), posts |-> <<>>, hit |-> FALSE,
                memo |-> memo]
Called(call) == [called |-> TRUE, ret |-> call.ret, posts |-> call.posts,
                 hit |-> call.hit, memo |-> call.memo]

\* _assess_job_match(job_details, insights), reached with truthy job_details
AssessJobMatch(st, press, env, out) ==
  IF press = "fit"
    THEN One({[st EXCEPT !.page.widgets = @ \cup {"fit_btn"}, !.page.fit = a.fit,
                         !.page.msgs = @ \cup a.msgs, !.call = Called(a.call)]
               : a \in {AssessPressed(st.sess.job_details.v, st.sess.insights.v, env,
                                      st.call.memo, out)}})
    ELSE [st EXCEPT !.page.widgets = @ \cup {"fit_btn"}]

\* the end of _extract_job_details and of _setup_job_description_section:
\* cached job details are displayed and returned, and truthy ones lead to
\* _assess_job_match
ShowJobDetails(st, press, env, out) ==
  IF ~st.sess.job_details.has THEN st
  ELSE IF st.sess.job_details.v.k # "dict" THEN [st EXCEPT !.page.exc = "AttributeError"]
  ELSE IF ~Truthy(st.sess.job_details.v) THEN [st EXCEPT !.page.job = st.sess.job_details]
  ELSE AssessJobMatch([st EXCEPT !.page.job = st.sess.job_details], press, env, out)

\* the "Extract Job Details" button of _extract_job_details
JobButton(st, press, env, out) ==
  IF press = "job"
    THEN One({[st EXCEPT !.sess.job_details = IF j.stored THEN Has(j.val) ELSE @,
                         !.page.widgets = @ \cup {"job_btn"},
                         !.page.msgs = @ \cup j.msgs, !.call = Called(j.call)]
               : j \in {JobDetailsPressed(st.sess.job_url, env, st.call.memo, out)}})
    ELSE [st EXCEPT !.page.widgets = @ \cup {"job_btn"}]

\* faulty variant: the button is offered whatever the URL input holds
SetupJobDescriptionSectionAnyUrl(st, press, env, out) ==
  One({ShowJobDetails(st2, press, env, out)
        : st2 \in {JobButton([st EXCEPT !.page.widgets = @ \cup {"job_url"}],
                             press, env, out)}})

\* _setup_job_description_section(insights): the URL input, then
\* _extract_job_details(job_url) for a non-empty URL
SetupJobDescriptionSection(st, press, env, out) ==
  IF ~Truthy(st.sess.job_url)
    THEN [st EXCEPT !.page.widgets = @ \cup {"job_url"}]
    ELSE One({ShowJobDetails(st2, press, env, out)
               : st2 \in {JobButton([st EXCEPT !.page.widgets = @ \cup {"job_url"}],
                                    press, env, out)}})

\* the "Extract Resume Insights" button of _process_resume: what
\* _extract_resume_insights returned is assigned to the session, whatever it
\* is; an exception leaves the run before the assignment
InsightsButton(st, press, env, tmp, out) ==
  IF press = "insights"
    THEN One({IF e.ret.exc # "none"
                THEN [st EXCEPT !.page.exc = e.ret.exc, !.call = Called(e.call)]
                ELSE [st EXCEPT !.sess.insights = Has(e.ret.val), !.page.msgs = e.msgs,
                                !.call = Called(e.call)]
               : e \in {ExtractResumeInsights(env, st.call.memo, tmp, out)}})
    ELSE st

\* the rest of _process_resume: with an insights attribute in the session,
\* the profile is displayed and the job section set up
ShowInsights(st, press, env, out) ==
  IF st.page.exc # "none" \/ ~st.sess.insights.has THEN st
  ELSE IF DisplayCandidateProfile(st.sess.insights.v).exc # "none"
    THEN [st EXCEPT !.page.exc = DisplayCandidateProfile(st.sess.insights.v).exc]
  ELSE SetupJobDescriptionSection([st EXCEPT !.page.profile = st.sess.insights],
                                  press, env, out)

\* faulty variant: a run starts from the assessment the last run rendered
ProcessResumeKeepsAssessment(sess, press, env, memo, tmp, out) ==
  One({ShowInsights(st, press, env, out)
        : st \in {InsightsButton(
                    [sess |-> sess,
                     page |-> [BlankPage EXCEPT !.widgets = {"insights_btn"},
                                                !.fit = sess.page.fit],
                     call |-> Quiet(memo)],
                    press, env, tmp, out)}})

\* _process_resume(uploaded_file)
ProcessResume(sess, press, env, memo, tmp, out) ==
  One({ShowInsights(st, press, env, out)
        : st \in {InsightsButton(
                    [sess |-> sess,
                     page |-> [BlankPage EXCEPT !.widgets = {"insights_btn"}],
                     call |-> Quiet(memo)],
                    press, env, tmp, out)}})

\* run(): title, sidebar, uploader, then _process_resume for an uploaded file
RunScript(sess, press, env, memo, tmp, out) ==
  IF sess.file = PyNone
    THEN [sess |-> sess, page |-> BlankPage, call |-> Quiet(memo)]
    ELSE ProcessResume(sess, press, env, memo, tmp, out)

(***************************************************************************)
(* State.                                                                  *)
(***************************************************************************)
VARIABLES
  env,       \* os.environ: the four credential variables
  memo,      \* the st.cache_data caches of the three process_* functions,
             \* one per function, shared by the whole server process
  tmpCount,  \* temporary files created so far
  ss,        \* the user sessions: session id -> session
  last       \* what the last step did: who, which call, what it returned

vars == <<env, memo, tmpCount, ss, last>>

Pdfs == {Text("a.pdf")}
Urls == {Text("https://jobs/1"), Text("https://jobs/2")}

AgentId == Text("insight-agent")
JobAgent == Text("job-agent")
EvaluateAgent == Text("evaluate-agent")
Token == Text("token")

AllSet ==
  [ROE_AI_AGENT_ID |-> AgentId, ROE_AI_JOB_AGENT |-> JobAgent,
   ROE_AI_EVALUATE_AGENT |-> EvaluateAgent, ROE_AI_BEARER_TOKEN |-> Token]
NoneSet ==
  [ROE_AI_AGENT_ID |-> PyNone, ROE_AI_JOB_AGENT |-> PyNone,
   ROE_AI_EVALUATE_AGENT |-> PyNone, ROE_AI_BEARER_TOKEN |-> PyNone]

\* the environments a behaviour may start in: every variable set, one
\* variable unset or empty, or nothing set at all
Environments ==
  {AllSet, NoneSet}
    \cup {[AllSet EXCEPT ![v] = x] : v \in DOMAIN AllSet, x \in {PyNone, EmptyStr}}

NewSession ==
  [file |-> PyNone, insights |-> Absent, job_details |-> Absent,
   job_url |-> EmptyStr, page |-> BlankPage]

EmptyMemo == [doc |-> <<>>, url |-> <<>>, text |-> <<>>]

\* what a step found: the session's attributes and the assessment on its
\* page (nothing for a direct call)
NoSlots == [insights |-> Absent, job_details |-> Absent, fit |-> Absent]
Slots(sess) ==
  [insights |-> sess.insights, job_details |-> sess.job_details, fit |-> sess.page.fit]

Idle == [sess |-> "-", op |-> "start", args |-> <<>>, before |-> NoSlots,
         called |-> FALSE, ret |-> Ok(PyNone), posts |-> <<>>, hit |-> FALSE,
         okind |-> "unused"]

\* how the request of a step ended, when it issued one
OutKind(out) ==
  IF out.fault THEN "fault"
  ELSE IF RaisesForStatus(out.status) THEN "status"
  ELSE IF JsonLoads(out.body).exc # "none" THEN "notjson"
  ELSE "ok"

\* one user in front of the app
Init ==
  /\ env \in Environments
  /\ memo = EmptyMemo
  /\ tmpCount = 0
  /\ ss = [s \in {"s1"} |-> NewSession]
  /\ last = Idle

(***************************************************************************)
(* One user interaction: the widget changes, then the script runs.         *)
(***************************************************************************)
\* faulty variant: one st.session_state for every session of the process
RerunOneSessionState(s, sess, op, press, out) ==
  \E r \in {RunScript(sess, press, env, memo, tmpCount, out)} :
     /\ ss' = [x \in DOMAIN ss |-> [r.sess EXCEPT !.page = r.page]]
     /\ memo' = r.call.memo
     /\ tmpCount' = IF press = "insights" THEN tmpCount + 1 ELSE tmpCount
     /\ last' = [sess |-> s, op |-> op, args |-> <<>>, before |-> Slots(ss[s]),
                 called |-> r.call.called,
                 ret |-> r.call.ret, posts |-> r.call.posts, hit |-> r.call.hit,
                 okind |-> IF r.call.posts = <<>> THEN "unused" ELSE OutKind(out)]
     /\ UNCHANGED env

Rerun(s, sess, op, press, out) ==
  \E r \in {RunScript(sess, press, env, memo, tmpCount, out)} :
     /\ ss' = [ss EXCEPT ![s] = [r.sess EXCEPT !.page = r.page]]
     /\ memo' = r.call.memo
     /\ tmpCount' = IF press = "insights" THEN tmpCount + 1 ELSE tmpCount
     /\ last' = [sess |-> s, op |-> op, args |-> <<>>, before |-> Slots(ss[s]),
                 called |-> r.call.called,
                 ret |-> r.call.ret, posts |-> r.call.posts, hit |-> r.call.hit,
                 okind |-> IF r.call.posts = <<>> THEN "unused" ELSE OutKind(out)]
     /\ UNCHANGED env

\* faulty variant: a new upload drops the job details of the session
UploadResumeClears(s, f) ==
  /\ f # ss[s].file
  /\ Rerun(s, [ss[s] EXCEPT !.file = f, !.job_details = Absent], "upload", "none",
           NetworkFault)

UploadResume(s, f) ==
  /\ f # ss[s].file
  /\ Rerun(s, [ss[s] EXCEPT !.file = f], "upload", "none", NetworkFault)

RemoveResume(s) ==
  /\ ss[s].file # PyNone
  /\ Rerun(s, [ss[s] EXCEPT !.file = PyNone], "remove", "none", NetworkFault)

EditJobUrl(s, u) ==
  /\ "job_url" \in ss[s].page.widgets
  /\ u # ss[s].job_url
  /\ Rerun(s, [ss[s] EXCEPT !.job_url = u], "url", "none", NetworkFault)

PressInsights(s, out) ==
  /\ "insights_btn" \in ss[s].page.widgets
  /\ tmpCount < MaxTmp
  /\ Rerun(s, ss[s], "insights", "insights", out)

PressJob(s, out) ==
  /\ "job_btn" \in ss[s].page.widgets
  /\ Rerun(s, ss[s], "job", "job", out)

PressFit(s, out) ==
  /\ "fit_btn" \in ss[s].page.widgets
  /\ Rerun(s, ss[s], "fit", "fit", out)

Next ==
  \/ \E s \in DOMAIN ss, f \in Pdfs : UploadResume(s, f)
  \/ \E s \in DOMAIN ss : RemoveResume(s)
  \/ \E s \in DOMAIN ss, u \in Urls \cup {EmptyStr} : EditJobUrl(s, u)
  \/ \E s \in DOMAIN ss, out \in Outcomes("doc") : PressInsights(s, out)
  \/ \E s \in DOMAIN ss, out \in Outcomes("url") : PressJob(s, out)
  \/ \E s \in DOMAIN ss, out \in Outcomes("text") : PressFit(s, out)

Spec == Init /\ [][Next]_vars

(***************************************************************************)
(* Two users of one server process.  The same actions, with fewer inputs:  *)
(* one PDF, a job URL that is never cleared, a service that answers the    *)
(* insight agent with a valid profile and the job agent with a job         *)
(* description or a 500.                                                   *)
(***************************************************************************)
InitShared ==
  /\ env = AllSet
  /\ memo = EmptyMemo
  /\ tmpCount = 0
  /\ ss = [s \in {"s1", "s2"} |-> NewSession]
  /\ last = Idle

NextShared ==
  \/ \E s \in DOMAIN ss : UploadResume(s, Text("a.pdf"))
  \/ \E s \in DOMAIN ss, u \in Urls : EditJobUrl(s, u)
  \/ \E s \in DOMAIN ss : PressInsights(s, Http200(ListBody(JsonDumps(ProfA))))
  \/ \E s \in DOMAIN ss, out \in {Http200(ListBody(JsonDumps(JobA))), Http500} :
        PressJob(s, out)

SpecShared == InitShared /\ [][NextShared]_vars

(***************************************************************************)
(* One user who changes the resume: two PDFs to choose from, every         *)
(* credential set, a service that answers each agent with a valid result   *)
(* or a 500.                                                               *)
(***************************************************************************)
TwoPdfs == {Text("a.pdf"), Text("b.pdf")}

InitRestart ==
  /\ env = AllSet
  /\ memo = EmptyMemo
  /\ tmpCount = 0
  /\ ss = [s \in {"s1"} |-> NewSession]
  /\ last = Idle

NextRestart ==
  \/ \E s \in DOMAIN ss, f \in TwoPdfs : UploadResume(s, f)
  \/ \E s \in DOMAIN ss : RemoveResume(s)
  \/ \E s \in DOMAIN ss, u \in Urls \cup {EmptyStr} : EditJobUrl(s, u)
  \/ \E s \in DOMAIN ss, out \in {Http200(ListBody(JsonDumps(ProfA))), Http500} :
        PressInsights(s, out)
  \/ \E s \in DOMAIN ss,
         out \in {Http200(ListBody(JsonDumps(JobA))), Http200(ListBody(JsonDumps(JobB))),
                  Http500} :
        PressJob(s, out)
  \/ \E s \in DOMAIN ss, out \in {Http200(ListBody(JsonDumps(FitStrong))), Http500} :
        PressFit(s, out)

SpecRestart == InitRestart /\ [][NextRestart]_vars

(***************************************************************************)
(* Direct calls of the public functions of roe_ai.py, as its tests and     *)
(* its __main__ block make them: no session is involved.                   *)
(***************************************************************************)
InitClient ==
  /\ env \in Environments
  /\ memo = EmptyMemo
  /\ tmpCount = 0
  /\ ss = [s \in {} |-> NewSession]
  /\ last = Idle

Direct(op, args, result, out) ==
  \E call \in {result} :
  /\ memo' = call.memo
  /\ last' = [sess |-> "-", op |-> op, args |-> args, before |-> NoSlots,
              called |-> TRUE,
              ret |-> call.ret, posts |-> call.posts, hit |-> call.hit,
              okind |-> IF call.posts = <<>> THEN "unused" ELSE OutKind(out)]
  /\ UNCHANGED <<env, tmpCount, ss>>

CallDocument(pdf_path, out) ==
  Direct("process_document_with_ai_agent",
         <<AgentId, Token, pdf_path, insights_prompt, page_filter>>,
         process_document_with_ai_agent(AgentId, Token, pdf_path, insights_prompt,
                                        page_filter, memo, Files(tmpCount), out),
         out)

CallUrl(data, out) ==
  Direct("process_url_with_ai_agent", <<JobAgent, Token, data>>,
         process_url_with_ai_agent(JobAgent, Token, data, memo, out), out)

CallText(data, out) ==
  Direct("process_text_with_ai_agent", <<EvaluateAgent, Token, data>>,
         process_text_with_ai_agent(EvaluateAgent, Token, data, memo, out), out)

CallGenerateInsights(pdf_path, out) ==
  Direct("generate_insights", <<pdf_path, insights_prompt, page_filter>>,
         generate_insights(pdf_path, insights_prompt, page_filter, env, memo,
                           Files(tmpCount), out),
         out)

CallExtractJobDetails(url, out) ==
  Direct("extract_job_details", <<url>>, extract_job_details(url, env, memo, out), out)

CallEvaluateFit(candidate_insights, job_details, out) ==
  Direct("evaluate_candidate_job_fit", <<candidate_insights, job_details>>,
         evaluate_candidate_job_fit(candidate_insights, job_details, env, memo, out),
         out)

\* the arguments the direct calls are made with
TestPaths == {ResumePdf, MissingPdf}
TestUrl == Text("https://jobs/1")
TestCandidate == PyDict([skills |-> PyList(<<Text("Python")>>)])
TestJob == PyDict([requirements |-> PyList(<<Text("Python")>>)])

NextClient ==
  \/ \E p \in TestPaths, out \in Outcomes("doc") : CallDocument(p, out)
  \/ \E out \in Outcomes("url") : CallUrl(JobData(TestUrl), out)
  \/ \E out \in Outcomes("text") : CallText(FitData(TestCandidate, TestJob), out)
  \/ \E p \in TestPaths, out \in Outcomes("doc") : CallGenerateInsights(p, out)
  \/ \E out \in Outcomes("url") : CallExtractJobDetails(TestUrl, out)
  \/ \E c \in {TestCandidate, ProfA}, out \in Outcomes("text") :
        CallEvaluateFit(c, TestJob, out)

SpecClient == InitClient /\ [][NextClient]_vars

(***************************************************************************)
(* Direct calls of the rendering helpers of app.py, as test_app.py makes   *)
(* them: no session and no request is involved.                            *)
(***************************************************************************)
Pure(op, args, ret) ==
  /\ last' = [sess |-> "-", op |-> op, args |-> args, before |-> NoSlots,
              called |-> TRUE, ret |-> ret, posts |-> <<>>, hit |-> FALSE,
              okind |-> "unused"]
  /\ UNCHANGED <<env, memo, tmpCount, ss>>

CallGetProficiencyLabel(proficiency) ==
  Pure("_get_proficiency_label", <<proficiency>>, Ok(get_proficiency_label(proficiency)))

CallRenderSkills(skills) ==
  Pure("_render_skills", <<skills>>, Ok(render_skills(skills)))

CallRenderRecommendation(match_assessment) ==
  Pure("_render_recommendation", <<match_assessment>>,
       render_recommendation(match_assessment))

CallDisplayCandidateProfile(candidate_data) ==
  Pure("_display_candidate_profile", <<candidate_data>>,
       DisplayCandidateProfile(candidate_data))

\* the arguments of the direct calls
Proficiencies == (0 - MaxProficiency)..MaxProficiency
SkillNames == {Text("Python")}
TestSkills ==
  {PyDict([name |-> n]) : n \in SkillNames}
    \cup {PyDict([name |-> n, proficiency |-> p]) : n \in SkillNames, p \in Proficiencies}
SkillLists == UNION {[1..k -> TestSkills] : k \in 0..MaxSkills}
TestRecommendations ==
  {Text("Strong Fit"), Text("Moderate Fit"), Text("Weak Fit"), Text("Poor Fit"),
   EmptyStr, PyNone, PyList(<<Text("Strong Fit")>>),
   PyDict([label |-> Text("Strong Fit")])}
TestAssessments ==
  {PyDict([percentage_match |-> 75])}
    \cup {PyDict([percentage_match |-> 75, overall_recommendation |-> r])
           : r \in TestRecommendations}
TestProfiles == {ProfA, ProfEmptySkills, ProfNoEmail}

InitRender ==
  /\ env = AllSet
  /\ memo = EmptyMemo
  /\ tmpCount = 0
  /\ ss = [s \in {} |-> NewSession]
  /\ last = Idle

NextRender ==
  \/ \E p \in Proficiencies : CallGetProficiencyLabel(p)
  \/ \E l \in SkillLists : CallRenderSkills(PyList(l))
  \/ \E m \in TestAssessments : CallRenderRecommendation(m)
  \/ \E c \in TestProfiles : CallDisplayCandidateProfile(c)

SpecRender == InitRender /\ [][NextRender]_vars

(***************************************************************************)
(* Claims about the client, checked under SpecClient.                      *)
(***************************************************************************)
Extractors == {"generate_insights", "extract_job_details", "evaluate_candidate_job_fit"}
ClientOps == {"process_document_with_ai_agent", "process_url_with_ai_agent",
              "process_text_with_ai_agent"}

\* the environment variable holding the agent id of an extractor's role
AgentVar(op) ==
  CASE op = "generate_insights" -> "ROE_AI_AGENT_ID"
    [] op = "extract_job_details" -> "ROE_AI_JOB_AGENT"
    [] op = "evaluate_candidate_job_fit" -> "ROE_AI_EVALUATE_AGENT"

CredentialsMissing(op) ==
  ~Truthy(env[AgentVar(op)]) \/ ~Truthy(env.ROE_AI_BEARER_TOKEN)

\* C1: an extractor whose agent id or bearer token is unset or empty in the
\* environment returns None, and its call issues no HTTP request.
C1_MissingCredentials ==
  (last.op \in Extractors /\ CredentialsMissing(last.op))
    => (last.ret = Ok(PyNone) /\ last.posts = <<>>)

\* reached: extract_job_details was called on an existing URL with the
\* token set to the empty string
C1_Witness ==
  /\ last.op = "extract_job_details"
  /\ env.ROE_AI_BEARER_TOKEN = EmptyStr
  /\ Truthy(env.ROE_AI_JOB_AGENT)
  /\ last.ret = Ok(PyNone)

\* the cache of the function a direct call went to
CacheOf(op, m) ==
  CASE op = "process_document_with_ai_agent" -> m.doc
    [] op = "process_url_with_ai_agent" -> m.url
    [] op = "process_text_with_ai_agent" -> m.text

\* C5: for each of the three process_* functions, once a call has returned a
\* result (not None), every later call with the same argument tuple returns
\* that result and issues no HTTP request; in particular the second of two
\* identical calls in a row issues none.
C5_Memoization ==
  [][ last'.op \in ClientOps =>
        /\ (last'.args \in DOMAIN CacheOf(last'.op, memo)
              /\ CacheOf(last'.op, memo)[last'.args] # PyNone)
             => (last'.ret = Ok(CacheOf(last'.op, memo)[last'.args])
                   /\ last'.posts = <<>>)
        /\ (last.op = last'.op /\ last.args = last'.args /\ last.ret # Ok(PyNone))
             => (last'.ret = last.ret /\ last'.posts = <<>>) ]_vars

\* reached: a file-upload call on an existing file was served from the cache
\* with a result and without a request
C5_Witness ==
  /\ last.op = "process_document_with_ai_agent"
  /\ last.hit
  /\ last.ret # Ok(PyNone)
  /\ last.posts = <<>>

\* C6: when the HTTP request of an extractor fails (network fault, 4xx/5xx
\* status, body that is not JSON), the extractor returns None and raises
\* nothing.
C6_RequestFailureGivesNone ==
  (last.op \in Extractors /\ last.okind \in {"fault", "status", "notjson"})
    => last.ret = Ok(PyNone)

\* reached: generate_insights got a 200 whose body is not JSON
C6_Witness ==
  /\ last.op = "generate_insights"
  /\ last.okind = "notjson"
  /\ Len(last.posts) = 1
  /\ last.ret = Ok(PyNone)

\* C7: process_document_with_ai_agent on a path that does not exist returns
\* None and issues no HTTP request.
C7_MissingFile ==
  (last.op = "process_document_with_ai_agent" /\ last.args[3] \notin Files(tmpCount))
    => (last.ret = Ok(PyNone) /\ last.posts = <<>>)

\* reached: the call was made on non_existent.pdf and ran the function body
C7_Witness ==
  /\ last.op = "process_document_with_ai_agent"
  /\ last.args[3] = MissingPdf
  /\ ~last.hit
  /\ last.ret = Ok(PyNone)

\* C15: with credentials set, evaluate_candidate_job_fit(c, j) makes at most
\* one request (exactly one unless the call is answered from the cache); its
\* prompt is the fixed rubric and its target is "Candidate Insights:", the
\* JSON serialisation of c, "Job Details:", the JSON serialisation of j, in
\* that order.
C15_FitRequestTarget ==
  last.op = "evaluate_candidate_job_fit" =>
    /\ (~CredentialsMissing(last.op) /\ ~last.hit) => Len(last.posts) = 1
    /\ Len(last.posts) <= 1
    /\ last.posts # <<>> =>
         /\ last.posts[1].data.prompt = RubricPrompt
         /\ last.posts[1].data.target.s =
              <<[lit |-> "Candidate Insights:\n"], [json |-> last.args[1]],
                [lit |-> "\n\nJob Details:\n"], [json |-> last.args[2]]>>
         /\ DOMAIN last.posts[1].data = {"prompt", "target"}

\* reached: the evaluator was called on John Doe's profile and sent its
\* request
C15_Witness ==
  /\ last.op = "evaluate_candidate_job_fit"
  /\ last.args = <<ProfA, TestJob>>
  /\ Len(last.posts) = 1
  /\ last.posts[1].url = EvaluateAgent

\* C17: a call of process_url_with_ai_agent or process_text_with_ai_agent
\* that returned None after a failed request is not memoized: no call of
\* these functions is answered from the cache with None, a repeated call
\* issues its request again.
C17_FailuresNotMemoized ==
  (last.op \in {"process_url_with_ai_agent", "process_text_with_ai_agent"} /\ last.hit)
    => last.ret # Ok(PyNone)

(***************************************************************************)
(* Claims about the app, checked under Spec (one session) and SpecShared   *)
(* (two sessions).                                                         *)
(***************************************************************************)
Stages == {"insights", "job", "fit"}

\* the stage of the last step called its extractor and got nothing usable:
\* None, or a response whose nested value does not decode
StageFailed ==
  /\ last.op \in Stages
  /\ last.called
  /\ (last.ret = Ok(PyNone) \/ DecodeResult(last.ret).exc # "none")

\* the insight stage of the last step decoded a value that fails the schema
\* check
SchemaMismatch ==
  /\ last.op = "insights"
  /\ last.called
  /\ DecodeResult(last.ret).exc = "none"
  /\ SchemaCheck(DecodeResult(last.ret).val) = Ok(FALSE)

\* the value read from a session attribute, None for a missing one
SlotValue(slot) == IF slot.has THEN slot.v ELSE PyNone

\* C2: whenever the extractor call of a stage fails (None result, or a nested
\* value that does not decode), the script run of the button press ends
\* without an uncaught exception and shows a warning or an error.
C2_FailureShowsMessage ==
  StageFailed =>
    /\ ss[last.sess].page.exc = "none"
    /\ ss[last.sess].page.msgs \cap {"warning", "error"} # {}

\* C3: after a stage that failed (None result, decode failure or schema
\* mismatch), insights and job_details of the session have the value they
\* had before the button press (a missing attribute counting as None).
C3_FailedStageKeepsState ==
  (StageFailed \/ SchemaMismatch) =>
    /\ SlotValue(ss[last.sess].insights) = SlotValue(last.before.insights)
    /\ SlotValue(ss[last.sess].job_details) = SlotValue(last.before.job_details)

\* C4: a step calls at most one extractor, and only from a button press;
\* extract_job_details is called only in a state with an uploaded file and a
\* profile in the session; evaluate_candidate_job_fit only in a state with an
\* uploaded file, a profile and job details in the session and a non-empty
\* job URL.
C4_StageOrder ==
  [][ last'.called =>
        /\ last'.op \in Stages
        /\ Len(last'.posts) <= 1
        /\ last'.op \in {"job", "fit"} =>
             /\ ss[last'.sess].file # PyNone
             /\ ss[last'.sess].insights.has
             /\ ss[last'.sess].insights.v.k = "dict"
        /\ last'.op = "fit" =>
             /\ Truthy(ss[last'.sess].job_url)
             /\ ss[last'.sess].job_details.has ]_vars

\* reached: a fit evaluation went to the service and came back with an
\* assessment
C4_Witness ==
  /\ last.op = "fit"
  /\ last.called
  /\ Len(last.posts) = 1
  /\ ss[last.sess].page.fit.has

\* C8 as stated: an assessment that was on the page before a step is still
\* available after it.
C8_AssessmentStays ==
  last.before.fit.has => ss[last.sess].page.fit.has

\* C8 amended: the session keeps insights and job_details only.  Job details
\* in the session stay until a successful job-detail extraction replaces
\* them, insights stay until an insight extraction replaces them, and an
\* assessment is on the page only in the run of the "Assess Job Fit" press
\* that produced it.
C8_OnlyTwoSlots ==
  /\ \A s \in DOMAIN ss :
       ss[s].page.fit.has => (last.sess = s /\ last.op = "fit" /\ last.called)
  /\ last.before.job_details.has =>
       /\ ss[last.sess].job_details.has
       /\ ss[last.sess].job_details # last.before.job_details =>
            (last.op = "job" /\ last.called /\ "success" \in ss[last.sess].page.msgs)
  /\ last.before.insights.has =>
       /\ ss[last.sess].insights.has
       /\ ss[last.sess].insights # last.before.insights => last.op = "insights"

\* reached: an assessment was on the page, the user edited the job URL, and
\* the page has the job details but no assessment
C8_Witness ==
  /\ last.before.fit.has
  /\ last.op = "url"
  /\ ss[last.sess].page.job.has
  /\ ~ss[last.sess].page.fit.has

\* C9: insights in the session are always an object with name, email and
\* skills.
C9_CachedInsightsValid ==
  \A s \in DOMAIN ss :
    ss[s].insights.has =>
      /\ ss[s].insights.v.k = "dict"
      /\ required_fields \subseteq DOMAIN ss[s].insights.v.d

\* the requests a press of "Extract Job Details" in session s would issue
\* with the memo caches m
JobPressPosts(s, m) ==
  RunScript(ss[s], "job", env, m, tmpCount, Http500).call.posts

\* C10 as stated: a step of one session changes neither the state of another
\* session nor whether that session's job-detail call reaches the service.
C10_NothingShared ==
  [][ \A s \in DOMAIN ss \ {last'.sess} :
        /\ ss'[s] = ss[s]
        /\ "job_btn" \in ss[s].page.widgets =>
             JobPressPosts(s, memo') = JobPressPosts(s, memo) ]_vars

\* C10 amended: the session state is per session, a step of one session
\* leaves every other session as it was; the memo caches are shared, after a
\* job-detail call of one session the same call by another session issues no
\* request.
C10_SessionPrivateMemoShared ==
  [][ \A s \in DOMAIN ss \ {last'.sess} :
        /\ ss'[s] = ss[s]
        /\ (/\ last'.op = "job"
            /\ last'.called
            /\ "job_btn" \in ss[s].page.widgets
            /\ ss[s].job_url = ss[last'.sess].job_url)
             => JobPressPosts(s, memo') = <<>> ]_vars

\* reached: the first job-detail extraction of session s2 that succeeded was
\* answered from the cache, filled by session s1
C10_Witness ==
  /\ last.sess = "s2"
  /\ last.op = "job"
  /\ last.hit
  /\ last.posts = <<>>
  /\ ~last.before.job_details.has
  /\ ss["s2"].job_details.has

\* the environment variable holding the agent id a stage's extractor uses
StageAgentVar(op) ==
  CASE op = "insights" -> "ROE_AI_AGENT_ID"
    [] op = "job" -> "ROE_AI_JOB_AGENT"
    [] op = "fit" -> "ROE_AI_EVALUATE_AGENT"

\* C11: an extractor is called only in the run of a press of its stage's
\* button; a run issues at most one request, only through an extractor call,
\* and that request goes to the agent of the pressed stage; this holds
\* whether the call succeeds or fails.
C11_OnlyOnPressNoRetry ==
  /\ last.called => last.op \in Stages
  /\ Len(last.posts) <= 1
  /\ last.posts # <<>> =>
       /\ last.called
       /\ last.posts[1].url = env[StageAgentVar(last.op)]

\* reached: a press of "Extract Job Details" whose request failed at the
\* network level, with that one request and an error message
C11_Witness ==
  /\ last.op = "job"
  /\ last.called
  /\ last.okind = "fault"
  /\ Len(last.posts) = 1
  /\ "error" \in ss[last.sess].page.msgs

\* all three required fields are in the profile
HasRequiredFields(p) == {"name", "email", "skills"} \subseteq DOMAIN p.d

\* C12 as stated: after an insight extraction whose 2xx response is an
\* object with a result list whose first element holds, in value, the JSON
\* text of a profile with name, email and skills, the insights of the session
\* are that profile.
C12_ObjectBodyGivesProfile ==
  \A p \in TestProfiles :
    (/\ last.op = "insights"
     /\ last.okind = "ok"
     /\ HasRequiredFields(p)
     /\ last.ret = Ok(PyDict([result |-> PyList(<<PyDict([value |-> JsonDumps(p)])>>)])))
      => ss[last.sess].insights = Has(p)

\* C12 amended: after an insight extraction whose 2xx response is a list
\* whose first element holds, in value, the JSON text of a profile with name,
\* email and skills, the insights of the session are that profile; the
\* skill "Python" with proficiency 4 is labelled "Intermediate".
C12_ListBodyGivesProfile ==
  /\ \A p \in TestProfiles :
       (/\ last.op = "insights"
        /\ last.okind = "ok"
        /\ HasRequiredFields(p)
        /\ last.ret = Ok(PyList(<<PyDict([value |-> JsonDumps(p)])>>)))
         => ss[last.sess].insights = Has(p)
  /\ \A s \in DOMAIN ss :
       ss[s].page.profile.has =>
         /\ ss[s].page.profile = ss[s].insights
         /\ ss[s].insights = Has(ProfA) =>
              render_skills(ss[s].insights.v.d.skills)
                = <<[name |-> Text("Python"), label |-> "Intermediate"]>>

\* reached: the response carried John Doe's profile in a list, and the
\* profile is in the session and on the page
C12_Witness ==
  /\ last.op = "insights"
  /\ last.okind = "ok"
  /\ last.ret = Ok(PyList(<<PyDict([value |-> JsonDumps(ProfA)])>>))
  /\ ss[last.sess].insights = Has(ProfA)
  /\ ss[last.sess].page.profile = Has(ProfA)

\* json.loads of the i-th segment of the target text of the last request
TargetPart(i) == JsonLoads(PyStr(<<last.posts[1].data.target.s[i]>>))

\* C16: the request of a fit assessment carries the insights and the job
\* details of the session, each serialised once: json.loads of the text after
\* "Candidate Insights:" is the cached profile, json.loads of the text after
\* "Job Details:" is the cached job details.
C16_SerialisedOnce ==
  (last.op = "fit" /\ last.posts # <<>>) =>
    /\ TargetPart(2) = Ok(last.before.insights.v)
    /\ TargetPart(4) = Ok(last.before.job_details.v)

\* C18: a press of "Extract Resume Insights" in a session that already got
\* a profile for the uploaded file from an earlier press issues no request:
\* it is answered from the cache.
C18_SecondPressFromCache ==
  (/\ last.op = "insights"
   /\ last.called
   /\ last.before.insights.has
   /\ last.before.insights.v.k = "dict")
    => (last.posts = <<>> /\ last.hit)

\* C19: uploading another file, removing the file and editing the job URL
\* call no extractor and leave insights and job_details of the session as
\* they were; insights change only in a run of their button press, job
\* details only in a run of theirs; what the page shows as profile and as
\* job details are the session's values, and the request of a fit assessment
\* carries the session's values.
C19_OnlyOwnStageChanges ==
  last.sess \in DOMAIN ss =>
    /\ last.op \in {"upload", "remove", "url"} =>
         /\ ~last.called
         /\ last.posts = <<>>
         /\ ss[last.sess].insights = last.before.insights
         /\ ss[last.sess].job_details = last.before.job_details
    /\ ss[last.sess].insights # last.before.insights => last.op = "insights"
    /\ ss[last.sess].job_details # last.before.job_details => last.op = "job"
    /\ ss[last.sess].page.profile.has =>
         ss[last.sess].page.profile = ss[last.sess].insights
    /\ ss[last.sess].page.job.has =>
         ss[last.sess].page.job = ss[last.sess].job_details
    /\ (last.op = "fit" /\ last.posts # <<>>) =>
         /\ JsonLoads(TargetPart(2).val) = Ok(ss[last.sess].insights.v)
         /\ JsonLoads(TargetPart(4).val) = Ok(ss[last.sess].job_details.v)

\* reached: with a profile and job details in the session the user uploaded
\* b.pdf, and the page still shows both
C19_Witness ==
  /\ last.op = "upload"
  /\ last.before.insights.has
  /\ last.before.job_details.has
  /\ ss[last.sess].file = Text("b.pdf")
  /\ ss[last.sess].page.profile = last.before.insights
  /\ ss[last.sess].page.job = last.before.job_details

\* C20: whenever a file is uploaded and the insights of the session are a
\* profile with name, email and skills (the skills list may be empty), the
\* script run displays the profile without raising and goes on to the job
\* description section.
C20_ValidProfileDisplays ==
  \A s \in DOMAIN ss :
    (/\ ss[s].file # PyNone
     /\ ss[s].insights.has
     /\ ss[s].insights.v.k = "dict"
     /\ HasRequiredFields(ss[s].insights.v))
      => /\ ss[s].page.exc = "none"
         /\ ss[s].page.profile = ss[s].insights
         /\ "job_url" \in ss[s].page.widgets

(***************************************************************************)
(* Claims about the rendering helpers, checked under SpecRender.           *)
(***************************************************************************)
\* C13: _get_proficiency_label(p) is "Beginner" for p <= 2, "Intermediate"
\* for 2 < p <= 4 and "Advanced" for p > 4; the label of each skill badge is
\* the label of its proficiency.
C13_ProficiencyLabel ==
  /\ last.op = "_get_proficiency_label" =>
       /\ last.args[1] <= 2 => last.ret = Ok("Beginner")
       /\ (2 < last.args[1] /\ last.args[1] <= 4) => last.ret = Ok("Intermediate")
       /\ last.args[1] > 4 => last.ret = Ok("Advanced")
  /\ last.op = "_render_skills" =>
       \A i \in 1..Len(last.args[1].l) :
         "proficiency" \in DOMAIN last.args[1].l[i].d =>
           /\ last.args[1].l[i].d.proficiency = 2 => last.ret.val[i].label = "Beginner"
           /\ last.args[1].l[i].d.proficiency = 4 => last.ret.val[i].label = "Intermediate"
           /\ last.args[1].l[i].d.proficiency = 5 => last.ret.val[i].label = "Advanced"

\* reached: the label of the boundary 4 was asked for
C13_Witness ==
  /\ last.op = "_get_proficiency_label"
  /\ last.args = <<4>>
  /\ last.ret = Ok("Intermediate")

\* the recommendation the last _render_recommendation call was about
LastRecommendation ==
  IF "overall_recommendation" \in DOMAIN last.args[1].d
    THEN last.args[1].d.overall_recommendation
    ELSE Text("Unknown")

\* the indicator the mapping is said to give
ExpectedColor(recommendation) ==
  CASE recommendation = Text("Strong Fit") -> "green"
    [] recommendation = Text("Moderate Fit") -> "orange"
    [] OTHER -> "red"

\* C14 as stated: for every recommendation value the rendering does not
\* raise, uses green for "Strong Fit", orange for "Moderate Fit" and red for
\* everything else, and the rendered text contains the recommendation.
C14_MappingTotal ==
  last.op = "_render_recommendation" =>
    /\ last.ret.exc = "none"
    /\ last.ret.val[1] = ExpectedColor(LastRecommendation)
    /\ last.ret.val[3] = LastRecommendation

\* C14 amended: for a recommendation that is absent, None or any string the
\* rendering does not raise, uses green for "Strong Fit", orange for
\* "Moderate Fit" and red otherwise, and the rendered text contains the
\* recommendation; for a recommendation that is a list or an object the
\* lookup in color_map raises TypeError.
C14_MappingTotalOnHashable ==
  last.op = "_render_recommendation" =>
    IF LastRecommendation.k \in {"list", "dict"}
      THEN last.ret.exc = "TypeError"
      ELSE /\ last.ret.exc = "none"
           /\ last.ret.val[1] = ExpectedColor(LastRecommendation)
           /\ last.ret.val[3] = LastRecommendation

\* reached: an unrecognized string was rendered with the red indicator
C14_Witness ==
  /\ last.op = "_render_recommendation"
  /\ LastRecommendation = Text("Weak Fit")
  /\ last.ret.exc = "none"
  /\ last.ret.val[1] = "red"

=============================================================================
